---- MODULE Spec2Model ----
(***************************************************************************)
(* Model of the unionobt chat-commerce bot: order redemption (/redeem and  *)
(* the redeem modal), support tickets (open / close), and the legacy       *)
(* dashboard redeem button.                                                *)
(*                                                                         *)
(* Every handler is an asyncio coroutine.  Code between two awaits runs    *)
(* without interleaving (the datastore client is synchronous), so one      *)
(* action of the model is "an await returns with some outcome, and the     *)
(* handler runs up to its next await".                                     *)
(***************************************************************************)
EXTENDS Integers, Sequences, FiniteSets, Bags, TLC

VARIABLES
    arg,          \* pure-function harness: the invoice handed to invoice_is_paid
    ret,          \* pure-function harness: the results, or None before the call
    pc,           \* per handler invocation: the await it is suspended at
    call,         \* per handler invocation: its arguments and locals
    resp,         \* per handler invocation: the message it sent to the user
    exc,          \* per handler invocation: the exception that escaped it
    role_redeem,  \* datastore table role_redeem (a bag of rows)
    tickets,      \* datastore table tickets (row i has id i)
    roles,        \* chat platform: the role ids each member holds
    channels,     \* chat platform: the ticket channels created so far
    logs,         \* chat platform: messages in the audit-log channel
    dms,          \* chat platform: product files delivered by direct message
    env           \* process configuration read at import time

vars == <<arg, ret, pc, call, resp, exc, role_redeem, tickets, roles,
          channels, logs, dms, env>>

None == "None"

-----------------------------------------------------------------------------
(* Strings that the code inspects character by character are tuples of    *)
(* one-character strings.                                                  *)

LowerChar(c) ==
    CASE c = "A" -> "a" [] c = "C" -> "c" [] c = "D" -> "d" [] c = "E" -> "e"
      [] c = "I" -> "i" [] c = "L" -> "l" [] c = "M" -> "m" [] c = "O" -> "o"
      [] c = "P" -> "p" [] c = "T" -> "t" [] c = "R" -> "r"
      [] OTHER -> c

\* str.lower()
lower(s) == [i \in 1..Len(s) |-> LowerChar(s[i])]

\* str.strip(): drops leading and trailing whitespace
RECURSIVE lstrip(_)
lstrip(s) == IF s # <<>> /\ Head(s) = " " THEN lstrip(Tail(s)) ELSE s

RECURSIVE rstrip(_)
rstrip(s) ==
    IF s # <<>> /\ s[Len(s)] = " " THEN rstrip(SubSeq(s, 1, Len(s) - 1)) ELSE s

strip(s) == rstrip(lstrip(s))

\* JSON / Python values of mixed type are tagged records.
JStr(s)  == [str |-> s]
JBool(b) == [bool |-> b]
JInt(n)  == [int |-> n]
JNull    == [null |-> TRUE]
\* a key that the dict does not hold
Absent   == [absent |-> TRUE]

\* Python truthiness: bool(x)
bool(x) ==
    CASE DOMAIN x = {"bool"} -> x.bool
      [] DOMAIN x = {"str"}  -> x.str # <<>>
      [] DOMAIN x = {"int"}  -> x.int # 0
      [] OTHER               -> FALSE

\* dict.get(key, default)
get(d, key, default) == IF d[key] = Absent THEN default ELSE d[key]

S_paid      == <<"p", "a", "i", "d">>
S_completed == <<"c", "o", "m", "p", "l", "e", "t", "e", "d">>
S_complete  == <<"c", "o", "m", "p", "l", "e", "t", "e">>
S_pending   == <<"p", "e", "n", "d", "i", "n", "g">>

\* (invoice.get("status") or "").lower()
status_of(invoice) ==
    LET raw == get(invoice, "status", JNull)
    IN  lower(IF bool(raw) THEN raw.str ELSE <<>>)

\* invoice_is_paid that ignores the refunded flag
invoice_is_paid_norefund(invoice) ==
    LET status    == status_of(invoice)
        cancelled == bool(get(invoice, "cancelled", JBool(FALSE)))
    IN  status \in {S_completed, S_paid} /\ ~cancelled

\* shop.py: invoice_is_paid
invoice_is_paid(invoice) ==
    LET status    == status_of(invoice)
        refunded  == bool(get(invoice, "refunded", JBool(FALSE)))
        cancelled == bool(get(invoice, "cancelled", JBool(FALSE)))
    IN  status \in {S_completed, S_paid} /\ ~refunded /\ ~cancelled

\* the /redeem copy without the cancelled test
cog_invoice_is_paid_nocancel(invoice) ==
    LET status    == status_of(invoice)
        refunded  == bool(get(invoice, "refunded", JBool(FALSE)))
    IN  status \in {S_completed, S_paid} /\ ~refunded

\* invoice_redeem.py: invoice_is_paid (a second copy of the same function)
cog_invoice_is_paid(invoice) ==
    LET status    == status_of(invoice)
        refunded  == bool(get(invoice, "refunded", JBool(FALSE)))
        cancelled == bool(get(invoice, "cancelled", JBool(FALSE)))
    IN  status \in {S_completed, S_paid} /\ ~refunded /\ ~cancelled

\* The spellings of the statuses the harness tries.
PaidSpellings      == {S_paid, <<"P", "A", "I", "D">>, <<"P", "a", "i", "d">>}
CompletedSpellings == {S_completed,
                       <<"C", "o", "m", "p", "l", "e", "t", "e", "d">>}
CompleteSpellings  == {S_complete, <<"C", "O", "M", "P", "L", "E", "T", "E">>}
OtherSpellings     == {S_pending, <<>>}

Statuses ==
    {JStr(s) : s \in PaidSpellings \cup CompletedSpellings
                     \cup CompleteSpellings \cup OtherSpellings}
    \cup {JNull, Absent}

Flags == {JBool(TRUE), JBool(FALSE), JNull, Absent}

Invoices == [status : Statuses, refunded : Flags, cancelled : Flags]

NoRet == [none |-> TRUE]

-----------------------------------------------------------------------------
(* Pure-function harness: one invoice in, the answer of both copies out.   *)

InitPaid ==
    /\ arg \in Invoices
    /\ ret = NoRet
    /\ pc = <<>> /\ call = <<>> /\ resp = <<>> /\ exc = <<>>
    /\ role_redeem = EmptyBag /\ tickets = <<>> /\ roles = <<>>
    /\ channels = <<>> /\ logs = <<>> /\ dms = EmptyBag
    /\ env = [SELLAUTH_API_KEY |-> TRUE, SELLAUTH_SHOP_ID |-> TRUE]

CallInvoiceIsPaid ==
    /\ ret = NoRet
    /\ ret' = [shop |-> invoice_is_paid(arg), cog |-> cog_invoice_is_paid(arg)]
    /\ UNCHANGED <<arg, pc, call, resp, exc, role_redeem, tickets, roles,
                   channels, logs, dms, env>>

NextPaid == CallInvoiceIsPaid

SpecPaid == InitPaid /\ [][NextPaid]_vars

-----------------------------------------------------------------------------
(* Order redemption: /redeem (invoice_redeem.py) and the redeem modal      *)
(* (shop.py).                                                              *)

NumTasks == 2
Tasks    == 1..NumTasks

ACCESS_ROLE_ID == "1444450052323147826"
STAFF_ROLE_IDS == {"1432015464036433970", "1449491116822106263"}

\* guild members that redeem or receive access, and the staff running /redeem
Members == {11, 12}
Issuers == {21}
\* str(member)
NameOf(m) == CASE m = 11 -> "ann" [] m = 12 -> "bob" [] m = 21 -> "sam"
               [] OTHER -> "other"

\* what the user types as the order id
OrderIds == { <<" ", "a", " ">>, <<"b">> }

\* invoices the storefront answers with in the redemption flows
Invoice(status, refunded, cancelled) ==
    [status |-> JStr(status), refunded |-> JBool(refunded),
     cancelled |-> JBool(cancelled)]

FetchedInvoices ==
    { Invoice(S_paid, FALSE, FALSE),
      Invoice(<<"C", "o", "m", "p", "l", "e", "t", "e", "d">>, FALSE, FALSE),
      Invoice(S_complete, FALSE, FALSE),
      Invoice(S_pending, FALSE, FALSE),
      Invoice(S_paid, TRUE, FALSE),
      Invoice(S_completed, FALSE, TRUE) }

\* the messages the handlers send
M_none           == "(no message)"
M_already        == "This order has already been redeemed."
M_invalid        == "Order is invalid or unpaid."
M_modal_success  == "Order confirmed. Premium role applied."
M_not_configured == "SellAuth is not configured yet."
M_not_found      == "Order not found. Double-check the ID and try again."
M_not_paid       == "This order is not completed/paid, or it was refunded/cancelled."
M_role_missing   == "Access role not found. Contact staff."
M_cannot_assign  == "I can't assign roles."
M_redeem_success == "Confirmed order and granted access."
M_broke          == "Something broke while redeeming."

E_none == "(none)"

NoCall == [h |-> "none"]

\* invocations are numbered in their order of arrival
NextToArrive(t) == pc[t] = "idle" /\ \A u \in Tasks : u < t => pc[u] # "idle"

\* a handler returns, or an exception leaves it: its locals are dropped
Finish(t, message, error) ==
    /\ pc'   = [pc   EXCEPT ![t] = "done"]
    /\ resp' = [resp EXCEPT ![t] = message]
    /\ exc'  = [exc  EXCEPT ![t] = error]
    /\ call' = [call EXCEPT ![t] = [h |-> call[t].h]]

\* the handler suspends at its next await
Await(t, label, locals) ==
    /\ pc'   = [pc   EXCEPT ![t] = label]
    /\ call' = [call EXCEPT ![t] = locals]
    /\ UNCHANGED <<resp, exc>>

\* not SELLAUTH_API_KEY or not SELLAUTH_SHOP_ID
not_configured == ~env.SELLAUTH_API_KEY \/ ~env.SELLAUTH_SHOP_ID

\* what session.get does within ClientTimeout(total=8): it answers with a
\* status and a body, or the 8 seconds pass
HttpAnswer(status, json) == [status |-> status, json |-> json]
HttpTimeout == [timeout |-> TRUE]

\* fetch_invoice, given what the request does
fetch_invoice_on(http) ==
    IF not_configured THEN [return |-> JNull]
    ELSE IF http = HttpTimeout THEN [raise |-> "TimeoutError"]
    ELSE IF http.status # 200 THEN [return |-> JNull]
    ELSE [return |-> http.json]

\* what the storefront does in the redemption flows
HttpOutcomes ==
    {HttpTimeout, HttpAnswer(404, JNull)}
    \cup {HttpAnswer(200, i) : i \in FetchedInvoices}

\* fetch_invoice: what the await can produce
fetch_invoice == {fetch_invoice_on(http) : http \in HttpOutcomes}

Returned(o) == "return" \in DOMAIN o

\* supabase.table("role_redeem").select("id").eq("invoice_id", invoice_id)
select_invoice(invoice_id) ==
    {r \in BagToSet(role_redeem) : r.invoice_id = JStr(invoice_id)}

\* the lookup compares the untrimmed input
select_invoice_raw(t) ==
    {r \in BagToSet(role_redeem) : r.invoice_id = JStr(call[t].order_id)}

\* invoice_id = order_id.strip(), then the "already redeemed?" lookup
existing(t) == select_invoice(strip(call[t].order_id))

\* the table refuses a second row for an invoice_id
insert_redeem_unique(row) ==
    role_redeem' =
        IF \E r \in BagToSet(role_redeem) : r.invoice_id = row.invoice_id
        THEN role_redeem
        ELSE role_redeem (+) SetToBag({row})

\* supabase.table("role_redeem").insert(row)
insert_redeem(row) == role_redeem' = role_redeem (+) SetToBag({row})

\* the row keeps the order id as typed, untrimmed
modal_row_untrimmed(t) ==
    [role_id          |-> JStr(ACCESS_ROLE_ID),
     redeemed         |-> JBool(TRUE),
     redeemed_by      |-> JInt(call[t].user),
     invoice_id       |-> JStr(call[t].order_id),
     discord_username |-> JStr(NameOf(call[t].user))]

\* shop.py: the row the modal inserts
modal_row(t) ==
    [role_id          |-> JStr(ACCESS_ROLE_ID),
     redeemed         |-> JBool(TRUE),
     redeemed_by      |-> JInt(call[t].user),
     invoice_id       |-> JStr(strip(call[t].order_id)),
     discord_username |-> JStr(NameOf(call[t].user))]

\* invoice_redeem.py: the row /redeem inserts
redeem_row(t) ==
    [role_id          |-> JStr(ACCESS_ROLE_ID),
     redeemed         |-> JBool(TRUE),
     redeemed_by      |-> JInt(call[t].issuer),
     invoice_id       |-> JStr(strip(call[t].order_id)),
     discord_username |-> JStr(NameOf(call[t].user))]

\* the grant does not last
add_roles_not_kept(m, role) == roles' = roles

\* member.add_roles(role) took effect
add_roles(m, role) == roles' = [roles EXCEPT ![m] = @ \cup {role}]

----
\* A user submits the redeem modal: on_submit runs to its defer.
SubmitModal(t) ==
    /\ NextToArrive(t)
    /\ \E o \in OrderIds, m \in Members :
          Await(t, "defer", [h |-> "modal", order_id |-> o, user |-> m])
    /\ UNCHANGED <<arg, ret, role_redeem, tickets, roles, channels, logs, dms, env>>

\* shop.py 93-103: defer returned; member lookup, "already redeemed?", fetch
ModalDeferred(t) ==
    /\ pc[t] = "defer" /\ call[t].h = "modal"
    /\ \/ Finish(t, M_none, "HTTPException")             \* defer failed
       \/ Finish(t, M_none, "APIError")                  \* the select failed
       \/ /\ existing(t) # {}
          /\ Finish(t, M_already, E_none)
       \/ /\ existing(t) = {}
          /\ Await(t, "fetch", call[t])
    /\ UNCHANGED <<arg, ret, role_redeem, tickets, roles, channels, logs, dms, env>>

\* shop.py 114-129: insert the row, confirm to the user
ModalInsert(t) ==
    \/ /\ insert_redeem(modal_row(t))
       /\ Finish(t, M_modal_success, E_none)
    \/ /\ UNCHANGED role_redeem                          \* the insert failed
       /\ Finish(t, M_none, "APIError")

\* the grant is called without looking at member.roles
ModalFetched_always_grants(t) ==
    /\ pc[t] = "fetch" /\ call[t].h = "modal"
    /\ \E o \in fetch_invoice :
          \/ /\ ~Returned(o)
             /\ Finish(t, M_none, o.raise)
             /\ UNCHANGED role_redeem
          \/ /\ Returned(o)
             /\ IF o.return = JNull THEN TRUE ELSE ~invoice_is_paid(o.return)
             /\ Finish(t, M_invalid, E_none)
             /\ UNCHANGED role_redeem
          \/ /\ Returned(o)
             /\ o.return # JNull /\ invoice_is_paid(o.return)
             /\ \E role \in {ACCESS_ROLE_ID, None} :
                   IF role # None
                   THEN /\ Await(t, "add_roles",
                                 call[t] @@ [invoice |-> o.return])
                        /\ UNCHANGED role_redeem
                   ELSE ModalInsert(t)
    /\ UNCHANGED <<arg, ret, tickets, roles, channels, logs, dms, env>>

\* shop.py 103-112: the fetch returned; paid check, role check
ModalFetched(t) ==
    /\ pc[t] = "fetch" /\ call[t].h = "modal"
    /\ \E o \in fetch_invoice :
          \/ /\ ~Returned(o)
             /\ Finish(t, M_none, o.raise)
             /\ UNCHANGED role_redeem
          \/ /\ Returned(o)
             /\ IF o.return = JNull THEN TRUE ELSE ~invoice_is_paid(o.return)
             /\ Finish(t, M_invalid, E_none)
             /\ UNCHANGED role_redeem
          \/ /\ Returned(o)
             /\ o.return # JNull /\ invoice_is_paid(o.return)
             /\ \E role \in {ACCESS_ROLE_ID, None} :     \* guild.get_role
                   IF role # None /\ role \notin roles[call[t].user]
                   THEN /\ Await(t, "add_roles",
                                 call[t] @@ [invoice |-> o.return])
                        /\ UNCHANGED role_redeem
                   ELSE ModalInsert(t)
    /\ UNCHANGED <<arg, ret, tickets, roles, channels, logs, dms, env>>

\* grant-after-write: the row is written before the grant is known to work
ModalRoleAdded_write_first(t) ==
    /\ pc[t] = "add_roles" /\ call[t].h = "modal"
    /\ \/ /\ add_roles(call[t].user, ACCESS_ROLE_ID)
          /\ ModalInsert(t)
       \/ /\ insert_redeem(modal_row(t))
          /\ Finish(t, M_none, "Forbidden")
          /\ UNCHANGED roles
    /\ UNCHANGED <<arg, ret, tickets, channels, logs, dms, env>>

\* shop.py 112-129: add_roles returned
ModalRoleAdded(t) ==
    /\ pc[t] = "add_roles" /\ call[t].h = "modal"
    /\ \/ /\ add_roles(call[t].user, ACCESS_ROLE_ID)
          /\ ModalInsert(t)
       \/ /\ \E e \in {"Forbidden", "HTTPException"} : Finish(t, M_none, e)
          /\ UNCHANGED <<role_redeem, roles>>
    /\ UNCHANGED <<arg, ret, tickets, channels, logs, dms, env>>

----
\* Staff runs /redeem order_id user: the handler runs to its defer.
InvokeRedeem(t) ==
    /\ NextToArrive(t)
    /\ \E o \in OrderIds, u \in Members, s \in Issuers :
          Await(t, "defer", [h |-> "redeem", order_id |-> o, user |-> u,
                             issuer |-> s])
    /\ UNCHANGED <<arg, ret, role_redeem, tickets, roles, channels, logs, dms, env>>

\* invoice_redeem.py 71-110: defer returned; config check, "already
\* redeemed?", fetch.  The command is registered for the home guild only, so
\* interaction.guild is that guild and user is one of its members: the two
\* guild checks (85-93) always pass.
RedeemDeferred(t) ==
    /\ pc[t] = "defer" /\ call[t].h = "redeem"
    /\ \/ Finish(t, M_none, E_none)                  \* defer failed: return
       \/ /\ not_configured
          /\ Finish(t, M_not_configured, E_none)
       \/ /\ ~not_configured
          /\ \/ Finish(t, M_broke, E_none)           \* the select failed
             \/ /\ existing(t) # {}
                /\ Finish(t, M_already, E_none)
             \/ /\ existing(t) = {}
                /\ Await(t, "fetch", call[t])
    /\ UNCHANGED <<arg, ret, role_redeem, tickets, roles, channels, logs, dms, env>>

\* invoice_redeem.py 138-171: insert the row, resolve the log channel, and
\* either send the audit entry or confirm at once
RedeemInsert(t) ==
    \/ /\ insert_redeem(redeem_row(t))
       /\ \/ Await(t, "log_send", [h |-> "redeem", user |-> call[t].user])
          \/ Finish(t, M_redeem_success, E_none)     \* no log channel
    \/ /\ UNCHANGED role_redeem                      \* the insert failed
       /\ Finish(t, M_broke, E_none)

\* invoice_redeem.py 107-130: the fetch returned; paid check, role check
RedeemFetched(t) ==
    /\ pc[t] = "fetch" /\ call[t].h = "redeem"
    /\ \E o \in fetch_invoice :
          \/ /\ ~Returned(o)
             /\ Finish(t, M_broke, E_none)
             /\ UNCHANGED role_redeem
          \/ /\ Returned(o) /\ o.return = JNull
             /\ Finish(t, M_not_found, E_none)
             /\ UNCHANGED role_redeem
          \/ /\ Returned(o) /\ o.return # JNull
             /\ ~cog_invoice_is_paid(o.return)
             /\ Finish(t, M_not_paid, E_none)
             /\ UNCHANGED role_redeem
          \/ /\ Returned(o) /\ o.return # JNull
             /\ cog_invoice_is_paid(o.return)
             /\ \E role \in {ACCESS_ROLE_ID, None} :     \* guild.get_role
                   IF role = None
                   THEN /\ Finish(t, M_role_missing, E_none)
                        /\ UNCHANGED role_redeem
                   ELSE IF role \notin roles[call[t].user]
                   THEN /\ Await(t, "add_roles",
                                 call[t] @@ [invoice |-> o.return])
                        /\ UNCHANGED role_redeem
                   ELSE RedeemInsert(t)
    /\ UNCHANGED <<arg, ret, tickets, roles, channels, logs, dms, env>>

\* invoice_redeem.py 130-171: add_roles returned
RedeemRoleAdded(t) ==
    /\ pc[t] = "add_roles" /\ call[t].h = "redeem"
    /\ \/ /\ add_roles(call[t].user, ACCESS_ROLE_ID)
          /\ RedeemInsert(t)
       \/ /\ Finish(t, M_cannot_assign, E_none)      \* discord.Forbidden
          /\ UNCHANGED <<role_redeem, roles>>
       \/ /\ Finish(t, M_broke, E_none)              \* any other exception
          /\ UNCHANGED <<role_redeem, roles>>
    /\ UNCHANGED <<arg, ret, tickets, channels, logs, dms, env>>

\* invoice_redeem.py 166-179: log_channel.send returned
RedeemLogged(t) ==
    /\ pc[t] = "log_send" /\ call[t].h = "redeem"
    /\ \/ /\ logs' = Append(logs, [event |-> "Order Redeemed",
                                   user |-> call[t].user])
          /\ Finish(t, M_redeem_success, E_none)
       \/ /\ UNCHANGED logs                          \* the send failed
          /\ Finish(t, M_broke, E_none)
    /\ UNCHANGED <<arg, ret, role_redeem, tickets, roles, channels, dms, env>>

\* the table outlives the process: a row written by an earlier run
PriorRow ==
    [role_id          |-> JStr(ACCESS_ROLE_ID),
     redeemed         |-> JBool(TRUE),
     redeemed_by      |-> JInt(12),
     invoice_id       |-> JStr(<<"a">>),
     discord_username |-> JStr(NameOf(12))]

InitRedeem ==
    /\ arg = JNull /\ ret = NoRet
    /\ pc = [t \in Tasks |-> "idle"]
    /\ call = [t \in Tasks |-> NoCall]
    /\ resp = [t \in Tasks |-> M_none]
    /\ exc = [t \in Tasks |-> E_none]
    /\ role_redeem \in {EmptyBag, SetToBag({PriorRow})}
    /\ tickets = <<>>
    /\ roles = [m \in Members |-> {}]
    /\ channels = <<>> /\ logs = <<>> /\ dms = EmptyBag
    /\ env \in [SELLAUTH_API_KEY : BOOLEAN, SELLAUTH_SHOP_ID : BOOLEAN]

NextRedeem ==
    \E t \in Tasks :
        \/ SubmitModal(t)
        \/ ModalDeferred(t)
        \/ ModalFetched(t)
        \/ ModalRoleAdded(t)
        \/ InvokeRedeem(t)
        \/ RedeemDeferred(t)
        \/ RedeemFetched(t)
        \/ RedeemRoleAdded(t)
        \/ RedeemLogged(t)

SpecRedeem == InitRedeem /\ [][NextRedeem]_vars

\* A flag counts as false when it is false, null or not in the invoice.
FlagIsFalse(f) == f \in {JBool(FALSE), JNull, Absent}

StatusIn(invoice, spellings) == invoice.status \in {JStr(s) : s \in spellings}

\* C1 as stated: invoice_is_paid is true exactly for the invoices whose
\* status is, in any letter case, paid, completed or complete and whose
\* refunded and cancelled flags are both false.
C1_AsStated ==
    ret # NoRet =>
        LET expected ==
                /\ StatusIn(arg, PaidSpellings \cup CompletedSpellings
                                   \cup CompleteSpellings)
                /\ FlagIsFalse(arg.refunded)
                /\ FlagIsFalse(arg.cancelled)
        IN  (ret.shop <=> expected) /\ (ret.cog <=> expected)

\* C1 amended: invoice_is_paid (both copies) is true exactly for the
\* invoices whose status is, in any letter case, paid or completed and
\* whose refunded and cancelled flags are both false; the status complete
\* is not accepted.
C1_PaidOrCompleted ==
    ret # NoRet =>
        LET expected ==
                /\ StatusIn(arg, PaidSpellings \cup CompletedSpellings)
                /\ FlagIsFalse(arg.refunded)
                /\ FlagIsFalse(arg.cancelled)
        IN  (ret.shop <=> expected) /\ (ret.cog <=> expected)

\* an upper-case PAID invoice with a null refunded flag was accepted
C1_Witness ==
    /\ ret # NoRet
    /\ arg.status = JStr(<<"P", "A", "I", "D">>)
    /\ arg.refunded = JNull
    /\ ret.shop /\ ret.cog

-----------------------------------------------------------------------------
(* fetch_invoice on its own: one request outcome in, the result out.       *)

HttpStatuses == {200, 401, 404, 429, 500}

InitFetch ==
    /\ arg \in {HttpTimeout}
                 \cup {HttpAnswer(st, i) : st \in HttpStatuses,
                                           i \in FetchedInvoices}
    /\ ret = NoRet
    /\ pc = <<>> /\ call = <<>> /\ resp = <<>> /\ exc = <<>>
    /\ role_redeem = EmptyBag /\ tickets = <<>> /\ roles = <<>>
    /\ channels = <<>> /\ logs = <<>> /\ dms = EmptyBag
    /\ env \in [SELLAUTH_API_KEY : BOOLEAN, SELLAUTH_SHOP_ID : BOOLEAN]

CallFetchInvoice ==
    /\ ret = NoRet
    /\ ret' = fetch_invoice_on(arg)
    /\ UNCHANGED <<arg, pc, call, resp, exc, role_redeem, tickets, roles,
                   channels, logs, dms, env>>

NextFetch == CallFetchInvoice

SpecFetch == InitFetch /\ [][NextFetch]_vars

-----------------------------------------------------------------------------
(* Support tickets: the open-ticket button (shop.py) with                  *)
(* create_or_get_ticket_channel, and the close-ticket button (tickets.py). *)

Openers    == {11, 12}
Requesters == {11, 12, 21}

M_ticket_ready  == "Ticket ready"
M_no_permission == "You don't have permission to close this ticket."
M_closing       == "Closing ticket..."

\* str(n) for a non-negative integer, as its decimal digits
Digit(d) == CASE d = 0 -> "0" [] d = 1 -> "1" [] d = 2 -> "2" [] d = 3 -> "3"
              [] d = 4 -> "4" [] d = 5 -> "5" [] d = 6 -> "6" [] d = 7 -> "7"
              [] d = 8 -> "8" [] d = 9 -> "9"

RECURSIVE str(_)
str(n) == IF n < 10 THEN <<Digit(n)>> ELSE Append(str(n \div 10), Digit(n % 10))

DigitValue(c) == CHOOSE d \in 0..9 : Digit(d) = c

IsDigits(s) == s # <<>> /\ \A i \in 1..Len(s) : \E d \in 0..9 : Digit(d) = s[i]

\* int(s): the number, or None when s is not a decimal numeral
RECURSIVE int(_)
int(s) ==
    IF ~IsDigits(s) THEN JNull
    ELSE IF Len(s) = 1 THEN JInt(DigitValue(s[1]))
    ELSE JInt(10 * int(SubSeq(s, 1, Len(s) - 1)).int + DigitValue(s[Len(s)]))

\* f"{n:04d}"
zfill4(s) == IF Len(s) >= 4 THEN s ELSE [i \in 1..(4 - Len(s)) |-> "0"] \o s

\* int(datetime.now(timezone.utc).timestamp()): the fallback ticket id
Timestamp == 1700

\* the topic carries the two ids under each other's key
format_topic_swapped(member, ticket_id) ==
    << <<"ticket_opener", str(ticket_id)>>, <<"ticket_id", str(member)>> >>

\* f"ticket_opener={member.id} ticket_id={ticket_id}", as its
\* whitespace-separated key=value parts
format_topic(member, ticket_id) ==
    << <<"ticket_opener", str(member)>>, <<"ticket_id", str(ticket_id)>> >>

\* the value of the first part that starts with key=, parsed as an int
RECURSIVE from_topic(_, _)
from_topic(topic, key) ==
    IF topic = <<>> THEN JNull
    ELSE IF Head(topic)[1] = key THEN int(Head(topic)[2])
    ELSE from_topic(Tail(topic), key)

_get_opener_id_from_topic(topic) == from_topic(topic, "ticket_opener")

_get_ticket_id_from_topic(topic) == from_topic(topic, "ticket_id")

\* any role counts as a staff role
_has_any_role(member) == roles[member] # {}

_has_staff_role(member) == \E r \in roles[member] : r \in STAFF_ROLE_IDS

\* channel ids are allocated in increasing order; channels[i] records the
\* i-th channel ever created
ChannelId(i) == 500 + i

\* guild.get_channel(id) as a ticket text channel, or None
get_channel(id) ==
    IF \E i \in DOMAIN channels : ChannelId(i) = id /\ channels[i].live
    THEN JInt(id) ELSE JNull

Channel(id) == channels[id - 500]

\* the lookup filters on a status no row has
select_open_typo(member) ==
    LET ids == {i \in DOMAIN tickets :
                   tickets[i].opener_id = member /\ tickets[i].status = "opened"}
    IN  IF ids = {} THEN <<>>
        ELSE LET top == CHOOSE i \in ids : \A j \in ids : j <= i
             IN  << [id |-> top, channel_id |-> tickets[top].channel_id] >>

\* the open rows of a member, newest first, limit 1, as (id, channel_id)
select_open(member) ==
    LET ids == {i \in DOMAIN tickets :
                   tickets[i].opener_id = member /\ tickets[i].status = "open"}
    IN  IF ids = {} THEN <<>>
        ELSE LET top == CHOOSE i \in ids : \A j \in ids : j <= i
             IN  << [id |-> top, channel_id |-> tickets[top].channel_id] >>

\* tickets.insert({"opener_id": ..., "status": "open"})
new_ticket(member) ==
    [opener_id |-> member, status |-> "open", channel_id |-> JNull,
     closed_at |-> JNull]

\* tickets.update(fields).eq("id", ticket_id)
update_ticket(ticket_id, fields) ==
    tickets' = [i \in DOMAIN tickets |->
                   IF i = ticket_id THEN fields @@ tickets[i] ELSE tickets[i]]

\* the close update that forgets closed_at
mark_closed_no_timestamp == [status |-> "closed"]

\* {"status": "closed", "closed_at": now}
mark_closed == [status |-> "closed", closed_at |-> JStr("now")]

\* a handler returns a value to the user
FinishWith(t, message, locals) ==
    /\ pc'   = [pc   EXCEPT ![t] = "done"]
    /\ resp' = [resp EXCEPT ![t] = message]
    /\ exc'  = [exc  EXCEPT ![t] = E_none]
    /\ call' = [call EXCEPT ![t] = locals]

----
\* A member presses Open Ticket: open_ticket runs to its defer.
PressOpen(t) ==
    /\ NextToArrive(t)
    /\ \E m \in Openers : Await(t, "defer", [h |-> "open", member |-> m])
    /\ UNCHANGED <<arg, ret, role_redeem, tickets, roles, channels, logs, dms, env>>

\* tickets.py 146-205: the open-ticket lookup, the insert of a new row and
\* the call that creates the channel
OpenLookup(t, raised) ==
    LET member == call[t].member
        data   == IF raised THEN <<>> ELSE select_open(member)
        ch     == IF data # <<>> /\ bool(data[1].channel_id)
                  THEN get_channel(data[1].channel_id.int) ELSE JNull
    IN  IF ch # JNull
        THEN /\ FinishWith(t, M_ticket_ready, [h |-> "open", channel |-> ch])
             /\ UNCHANGED tickets
        ELSE \E inserted \in BOOLEAN :
               /\ tickets' = IF inserted
                             THEN Append(tickets, new_ticket(member))
                             ELSE tickets
               /\ Await(t, "create",
                        [h |-> "open", member |-> member,
                         existing |-> IF raised THEN JNull ELSE JStr(data),
                         ticket_id |-> IF inserted THEN Len(tickets) + 1
                                       ELSE Timestamp])

\* shop.py 148-150, tickets.py 134-205: defer returned; category, lookup,
\* insert, create_text_channel
OpenDeferred(t) ==
    /\ pc[t] = "defer" /\ call[t].h = "open"
    /\ \/ /\ Finish(t, M_none, "HTTPException")          \* defer failed
          /\ UNCHANGED tickets
       \/ /\ Finish(t, M_none, "AttributeError")         \* no category: None.mention
          /\ UNCHANGED tickets
       \/ \E raised \in BOOLEAN : OpenLookup(t, raised)
    /\ UNCHANGED <<arg, ret, role_redeem, roles, channels, logs, dms, env>>

\* tickets.py 199-227: the channel was created; backfill the channel id,
\* resolve the log channel
OpenChannelCreated(t) ==
    /\ pc[t] = "create" /\ call[t].h = "open"
    /\ \/ /\ Finish(t, M_none, "HTTPException")          \* create failed
          /\ UNCHANGED <<tickets, channels>>
       \/ LET id == ChannelId(Len(channels) + 1)
          IN  /\ channels' = Append(channels,
                     [topic  |-> format_topic(call[t].member, call[t].ticket_id),
                      name   |-> zfill4(str(call[t].ticket_id)),
                      live   |-> TRUE,
                      posted |-> FALSE])
              /\ \/ update_ticket(call[t].ticket_id, [channel_id |-> JInt(id)])
                 \/ UNCHANGED tickets                    \* the backfill failed
              /\ \E next \in {"log_send", "post"} :      \* log channel found or not
                    Await(t, next, [h |-> "open", member |-> call[t].member,
                                    ticket_id |-> call[t].ticket_id, ch |-> id])
    /\ UNCHANGED <<arg, ret, role_redeem, roles, logs, dms, env>>

\* tickets.py 227-244: the audit entry was sent
OpenLogged(t) ==
    /\ pc[t] = "log_send" /\ call[t].h = "open"
    /\ \/ /\ logs' = Append(logs, [event |-> "Ticket Opened",
                                   ticket_id |-> call[t].ticket_id])
          /\ Await(t, "post", call[t])
       \/ /\ Finish(t, M_none, "HTTPException")          \* the send failed
          /\ UNCHANGED logs
    /\ UNCHANGED <<arg, ret, role_redeem, tickets, roles, channels, dms, env>>

\* tickets.py 244-246, shop.py 150: the initial message with the close
\* control was posted; the channel is returned
OpenPosted(t) ==
    /\ pc[t] = "post" /\ call[t].h = "open"
    /\ \/ /\ channels' = [channels EXCEPT ![call[t].ch - 500].posted = TRUE]
          /\ FinishWith(t, M_ticket_ready,
                        [h |-> "open", channel |-> JInt(call[t].ch)])
       \/ /\ Finish(t, M_none, "HTTPException")          \* the send failed
          /\ UNCHANGED channels
    /\ UNCHANGED <<arg, ret, role_redeem, tickets, roles, logs, dms, env>>

----
\* tickets.py 63-83: a member presses Close Ticket in a ticket channel
PressClose(t) ==
    /\ NextToArrive(t)
    /\ \E user \in Requesters, i \in DOMAIN channels :
          /\ channels[i].live /\ channels[i].posted
          /\ LET opener_id == _get_opener_id_from_topic(channels[i].topic)
                 ticket_id == _get_ticket_id_from_topic(channels[i].topic)
                 is_staff  == _has_staff_role(user)
                 is_opener == opener_id # JNull /\ JInt(user) = opener_id
             IN  IF ~(is_staff \/ is_opener)
                 THEN FinishWith(t, M_no_permission,
                                 [h |-> "close", user |-> user,
                                  channel |-> ChannelId(i)])
                 ELSE /\ pc' = [pc EXCEPT ![t] = "closing"]
                      /\ resp' = [resp EXCEPT ![t] = M_closing]
                      /\ call' = [call EXCEPT ![t] =
                                     [h |-> "close", user |-> user,
                                      channel |-> ChannelId(i),
                                      ticket_id |-> ticket_id]]
                      /\ UNCHANGED exc
    /\ UNCHANGED <<arg, ret, role_redeem, tickets, roles, channels, logs, dms, env>>

\* the channel is deleted before the row is marked and the entry is sent
CloseAcked_delete_first(t) ==
    /\ pc[t] = "closing" /\ call[t].h = "close"
    /\ channels' = [channels EXCEPT ![call[t].channel - 500].live = FALSE]
    /\ \/ /\ bool(call[t].ticket_id)
          /\ update_ticket(call[t].ticket_id.int, mark_closed)
       \/ UNCHANGED tickets
    /\ \E next \in {"log_send", "delete"} :
          /\ pc' = [pc EXCEPT ![t] = next]
          /\ UNCHANGED <<call, resp, exc>>
    /\ UNCHANGED <<arg, ret, role_redeem, roles, logs, dms, env>>

\* tickets.py 83-126: "Closing ticket..." was sent; mark the row closed,
\* resolve the log channel
CloseAcked(t) ==
    /\ pc[t] = "closing" /\ call[t].h = "close"
    /\ \/ /\ bool(call[t].ticket_id)
          /\ update_ticket(call[t].ticket_id.int, mark_closed)
       \/ UNCHANGED tickets                  \* no ticket id, or the update failed
    /\ \E next \in {"log_send", "delete"} :  \* log channel found or not
          /\ pc' = [pc EXCEPT ![t] = next]
          /\ UNCHANGED <<call, resp, exc>>
    /\ UNCHANGED <<arg, ret, role_redeem, roles, channels, logs, dms, env>>

\* tickets.py 126-129: the audit entry was sent
CloseLogged(t) ==
    /\ pc[t] = "log_send" /\ call[t].h = "close"
    /\ \/ /\ logs' = Append(logs, [event |-> "Ticket Closed",
                                   ticket_id |-> call[t].ticket_id])
          /\ pc' = [pc EXCEPT ![t] = "delete"]
          /\ UNCHANGED <<call, resp, exc>>
       \/ /\ pc' = [pc EXCEPT ![t] = "done"]             \* the send failed
          /\ exc' = [exc EXCEPT ![t] = "HTTPException"]
          /\ call' = [call EXCEPT ![t] = [h |-> "close"]]
          /\ UNCHANGED <<logs, resp>>
    /\ UNCHANGED <<arg, ret, role_redeem, tickets, roles, channels, dms, env>>

\* tickets.py 128-131: channel.delete returned
CloseDeleted(t) ==
    /\ pc[t] = "delete" /\ call[t].h = "close"
    /\ \/ channels' = [channels EXCEPT ![call[t].channel - 500].live = FALSE]
       \/ UNCHANGED channels                             \* the delete failed
    /\ pc' = [pc EXCEPT ![t] = "done"]
    /\ call' = [call EXCEPT ![t] = [h |-> "close"]]
    /\ UNCHANGED <<resp, exc>>
    /\ UNCHANGED <<arg, ret, role_redeem, tickets, roles, logs, dms, env>>

InitTickets ==
    /\ arg = JNull /\ ret = NoRet
    /\ pc = [t \in Tasks |-> "idle"]
    /\ call = [t \in Tasks |-> NoCall]
    /\ resp = [t \in Tasks |-> M_none]
    /\ exc = [t \in Tasks |-> E_none]
    /\ role_redeem = EmptyBag
    /\ tickets = <<>>
    /\ roles = [m \in Requesters |->
                   CASE m = 21 -> {"1432015464036433970"}
                     [] m = 12 -> {ACCESS_ROLE_ID}
                     [] OTHER  -> {}]
    /\ channels = <<>> /\ logs = <<>> /\ dms = EmptyBag
    /\ env = [SELLAUTH_API_KEY |-> TRUE, SELLAUTH_SHOP_ID |-> TRUE]

NextTickets ==
    \E t \in Tasks :
        \/ PressOpen(t)
        \/ OpenDeferred(t)
        \/ OpenChannelCreated(t)
        \/ OpenLogged(t)
        \/ OpenPosted(t)
        \/ PressClose(t)
        \/ CloseAcked(t)
        \/ CloseLogged(t)
        \/ CloseDeleted(t)

SpecTickets == InitTickets /\ [][NextTickets]_vars

-----------------------------------------------------------------------------
(* The legacy dashboard: DynamicRedeemButton.callback (code_redeem.py).    *)

\* the buttons built from buttonconfig.json: label, product_path, required_role
Buttons ==
    { [label |-> "Alpha", product_path |-> "files/alpha.zip", required_role |-> "7001"],
      [label |-> "Beta",  product_path |-> "files/beta.zip",  required_role |-> "7002"] }

Pressers == {11, 12, 21}

M_no_role      == "You do not have the required role to redeem this product."
M_no_entry     == "No redemption entry exists for this product."
M_already_you  == "You already redeemed this product."
M_file_missing == "Product file missing on server."
M_enable_dms   == "You must enable DMs to receive your product."
M_redeemed     == "Product redeemed and sent to your DMs!"

\* a role-code row as it is provisioned, before anybody redeemed it
CodeRow(role) ==
    [role_id          |-> JStr(role),
     redeemed         |-> JBool(FALSE),
     redeemed_by      |-> JNull,
     invoice_id       |-> JNull,
     discord_username |-> JNull]

\* supabase.table("role_redeem").select("*").eq("role_id", role)
select_role(role) == {r \in BagToSet(role_redeem) : r.role_id = JStr(role)}

\* the comparison with the requesting user is inverted
already_redeemed_by_other(row, user) ==
    bool(get(row, "redeemed", JNull)) /\ get(row, "redeemed_by", JNull) # JInt(user)

\* row.get("redeemed") and row.get("redeemed_by") == interaction.user.id
already_redeemed(row, user) ==
    bool(get(row, "redeemed", JNull)) /\ get(row, "redeemed_by", JNull) = JInt(user)

\* the update removes the row once it is redeemed
mark_redeemed_and_delete(role, user) ==
    role_redeem' = [r \in {x \in BagToSet(role_redeem) : x.role_id # JStr(role)}
                       |-> role_redeem[r]]

\* .update({"redeemed": True, "redeemed_by": user}).eq("role_id", role)
mark_redeemed(role, user) ==
    LET updated(r) == IF r.role_id = JStr(role)
                      THEN [r EXCEPT !.redeemed = JBool(TRUE),
                                     !.redeemed_by = JInt(user)]
                      ELSE r
    IN  role_redeem' = BagOfAll(updated, role_redeem)

\* A member presses a dashboard button: callback runs to its defer.
PressButton(t) ==
    /\ NextToArrive(t)
    /\ \E b \in Buttons, u \in Pressers :
          Await(t, "defer", [h |-> "button", button |-> b, user |-> u])
    /\ UNCHANGED <<arg, ret, role_redeem, tickets, roles, channels, logs, dms, env>>

\* the file check is made before the ledger check
ButtonDeferred_file_first(t) ==
    /\ pc[t] = "defer" /\ call[t].h = "button"
    /\ LET b    == call[t].button
           user == call[t].user
           data == select_role(b.required_role)
       IN  \/ Finish(t, M_none, "HTTPException")
           \/ /\ b.required_role \notin roles[user]
              /\ Finish(t, M_no_role, E_none)
           \/ /\ b.required_role \in roles[user]
              /\ \/ Finish(t, M_file_missing, E_none)
                 \/ Finish(t, M_none, "APIError")
                 \/ /\ data = {}
                    /\ Finish(t, M_no_entry, E_none)
                 \/ \E row \in data :
                       IF already_redeemed(row, user)
                       THEN Finish(t, M_already_you, E_none)
                       ELSE Await(t, "dm", call[t])
    /\ UNCHANGED <<arg, ret, role_redeem, tickets, roles, channels, logs, dms, env>>

\* code_redeem.py 28-73: defer returned; role check, ledger check, file
\* check, then the file is sent by direct message.  The bot is a member of
\* its home guild, so get_guild(GUILD_ID) finds it.
ButtonDeferred(t) ==
    /\ pc[t] = "defer" /\ call[t].h = "button"
    /\ LET b    == call[t].button
           user == call[t].user
           data == select_role(b.required_role)
       IN  \/ Finish(t, M_none, "HTTPException")         \* defer failed
           \/ /\ b.required_role \notin roles[user]
              /\ Finish(t, M_no_role, E_none)
           \/ /\ b.required_role \in roles[user]
              /\ \/ Finish(t, M_none, "APIError")        \* the select failed
                 \/ /\ data = {}
                    /\ Finish(t, M_no_entry, E_none)
                 \/ \E row \in data :                    \* resp.data[0]
                       IF already_redeemed(row, user)
                       THEN Finish(t, M_already_you, E_none)
                       ELSE \/ Finish(t, M_file_missing, E_none)  \* not os.path.exists
                            \/ Await(t, "dm", call[t])
    /\ UNCHANGED <<arg, ret, role_redeem, tickets, roles, channels, logs, dms, env>>

\* code_redeem.py 69-90: interaction.user.send returned
ButtonSent(t) ==
    /\ pc[t] = "dm" /\ call[t].h = "button"
    /\ LET b    == call[t].button
           user == call[t].user
       IN  \/ /\ dms' = dms (+) SetToBag({[to |-> user, file |-> b.product_path]})
              /\ \/ /\ mark_redeemed(b.required_role, user)
                    /\ Finish(t, M_redeemed, E_none)
                 \/ /\ UNCHANGED role_redeem             \* the update failed
                    /\ Finish(t, M_none, "APIError")
           \/ /\ Finish(t, M_enable_dms, E_none)         \* discord.Forbidden
              /\ UNCHANGED <<dms, role_redeem>>
           \/ /\ Finish(t, M_none, "HTTPException")      \* any other exception
              /\ UNCHANGED <<dms, role_redeem>>
    /\ UNCHANGED <<arg, ret, tickets, roles, channels, logs, env>>

InitButton ==
    /\ arg = JNull /\ ret = NoRet
    /\ pc = [t \in Tasks |-> "idle"]
    /\ call = [t \in Tasks |-> NoCall]
    /\ resp = [t \in Tasks |-> M_none]
    /\ exc = [t \in Tasks |-> E_none]
    /\ role_redeem \in {SetToBag({CodeRow("7001")}),
                        SetToBag({CodeRow("7001"), CodeRow("7002")}),
                        SetToBag({CodeRow("7001")}) (+) SetToBag({CodeRow("7001")})}
    /\ tickets = <<>>
    /\ roles = [m \in Pressers |->
                   CASE m = 11 -> {"7001", "7002"}
                     [] m = 12 -> {"7001"}
                     [] OTHER  -> {}]
    /\ channels = <<>> /\ logs = <<>> /\ dms = EmptyBag
    /\ env = [SELLAUTH_API_KEY |-> TRUE, SELLAUTH_SHOP_ID |-> TRUE]

NextButton ==
    \E t \in Tasks :
        \/ PressButton(t)
        \/ ButtonDeferred(t)
        \/ ButtonSent(t)

SpecButton == InitButton /\ [][NextButton]_vars

-----------------------------------------------------------------------------
(* The legacy dashboard: RedeemView.__init__ builds the buttons from the   *)
(* entries of buttonconfig.json.                                           *)

MaxButtons == 3

\* BUTTON_COLOR_MAP.get(color, discord.ButtonStyle.secondary)
BUTTON_COLOR_MAP(color) ==
    CASE color = <<"g", "r", "e", "y">> -> "secondary"
      [] color = <<"g", "r", "a", "y">> -> "secondary"
      [] color = <<"g", "r", "e", "e", "n">> -> "success"
      [] color = <<"r", "e", "d">> -> "danger"
      [] color = <<"b", "l", "u", "r", "p", "l", "e">> -> "primary"
      [] OTHER -> "secondary"

ConfigKeys == {"ButtonName", "ButtonColor", "ButtonProductPath", "RedeemRole"}

\* the entries a config file is made of: each key is there or not; a role
\* that is there is a numeral or is not one
ConfigEntries ==
    [ButtonName        : {JStr("Alpha"), JStr("Beta"), Absent},
     ButtonColor       : {JStr(<<"R", "e", "d">>), Absent},
     ButtonProductPath : {JStr("files/p.zip"), Absent},
     RedeemRole        : {JStr(<<"7">>), JStr(<<"x">>), Absent}]

\* the loop stops at the first invalid entry
add_items_until_invalid(items, entries) ==
    LET RECURSIVE loop(_, _)
        loop(acc, rest) ==
            IF rest = <<>> THEN [items |-> acc]
            ELSE LET entry == Head(rest)
                 IN  IF ~\A k \in ConfigKeys : entry[k] # Absent
                     THEN [items |-> acc]
                     ELSE IF int(entry.RedeemRole.str) = JNull
                     THEN [raise |-> "ValueError"]
                     ELSE loop(Append(acc,
                                 [label         |-> entry.ButtonName.str,
                                  style         |-> BUTTON_COLOR_MAP(
                                                      lower(entry.ButtonColor.str)),
                                  product_path  |-> entry.ButtonProductPath.str,
                                  required_role |-> int(entry.RedeemRole.str).int]),
                               Tail(rest))
    IN  loop(items, entries)

\* code_redeem.py 105-115: the loop over data["buttons"]
add_items(items, entries) ==
    LET RECURSIVE loop(_, _)
        loop(acc, rest) ==
            IF rest = <<>> THEN [items |-> acc]
            ELSE LET entry == Head(rest)
                 IN  IF ~\A k \in ConfigKeys : entry[k] # Absent
                     THEN loop(acc, Tail(rest))                   \* continue
                     ELSE IF int(entry.RedeemRole.str) = JNull
                     THEN [raise |-> "ValueError"]                \* int(...)
                     ELSE loop(Append(acc,
                                 [label         |-> entry.ButtonName.str,
                                  style         |-> BUTTON_COLOR_MAP(
                                                      lower(entry.ButtonColor.str)),
                                  product_path  |-> entry.ButtonProductPath.str,
                                  required_role |-> int(entry.RedeemRole.str).int]),
                               Tail(rest))
    IN  loop(items, entries)

\* RedeemView.__init__: the file fails to load, or holds no "buttons" key,
\* or holds a list of entries
RedeemView(file) ==
    LET data == IF file = [unreadable |-> TRUE] THEN [buttons |-> <<>>] ELSE file
    IN  IF "buttons" \in DOMAIN data
        THEN add_items(<<>>, data.buttons)
        ELSE add_items(<<>>, <<>>)

InitView ==
    /\ \/ arg \in {[unreadable |-> TRUE], [other |-> TRUE]}
       \/ \E n \in 0..MaxButtons :
             \E q \in [1..n -> ConfigEntries] : arg = [buttons |-> q]
    /\ ret = NoRet
    /\ pc = <<>> /\ call = <<>> /\ resp = <<>> /\ exc = <<>>
    /\ role_redeem = EmptyBag /\ tickets = <<>> /\ roles = <<>>
    /\ channels = <<>> /\ logs = <<>> /\ dms = EmptyBag
    /\ env = [SELLAUTH_API_KEY |-> TRUE, SELLAUTH_SHOP_ID |-> TRUE]

CallRedeemView ==
    /\ ret = NoRet
    /\ ret' = RedeemView(arg)
    /\ UNCHANGED <<arg, pc, call, resp, exc, role_redeem, tickets, roles,
                   channels, logs, dms, env>>

NextView == CallRedeemView

SpecView == InitView /\ [][NextView]_vars

-----------------------------------------------------------------------------
(* The role_redeem table under all of its writers: /redeem, the redeem     *)
(* modal and the dashboard button work on the same table.                  *)

InitLedger ==
    /\ arg = JNull /\ ret = NoRet
    /\ pc = [t \in Tasks |-> "idle"]
    /\ call = [t \in Tasks |-> NoCall]
    /\ resp = [t \in Tasks |-> M_none]
    /\ exc = [t \in Tasks |-> E_none]
    /\ role_redeem = SetToBag({CodeRow("7001"), PriorRow})
    /\ tickets = <<>>
    /\ roles = [m \in Pressers |-> IF m = 11 THEN {"7001"} ELSE {}]
    /\ channels = <<>> /\ logs = <<>> /\ dms = EmptyBag
    /\ env = [SELLAUTH_API_KEY |-> TRUE, SELLAUTH_SHOP_ID |-> TRUE]

NextLedger ==
    \E t \in Tasks :
        \/ SubmitModal(t)
        \/ ModalDeferred(t)
        \/ ModalFetched(t)
        \/ ModalRoleAdded(t)
        \/ InvokeRedeem(t)
        \/ RedeemDeferred(t)
        \/ RedeemFetched(t)
        \/ RedeemRoleAdded(t)
        \/ RedeemLogged(t)
        \/ PressButton(t)
        \/ ButtonDeferred(t)
        \/ ButtonSent(t)

SpecLedger == InitLedger /\ [][NextLedger]_vars

-----------------------------------------------------------------------------
(* Order redemption: the claims.                                           *)

\* the order id as the ledger should know it
TrimmedId(o) == CASE o = <<" ", "a", " ">> -> <<"a">> [] OTHER -> o

RowsFor(id) == {r \in BagToSet(role_redeem) : r.invoice_id = JStr(id)}

\* how many rows the ledger holds for an order id
CountFor(id) == BagCardinality([r \in RowsFor(id) |-> role_redeem[r]])

IsRedeemTask(t) == call[t].h \in {"modal", "redeem"}

\* handler t takes this step
Steps(t) == pc'[t] # pc[t]

\* handler t resumes from its defer while the ledger holds its order id
LookupWithRow(t) ==
    /\ IsRedeemTask(t)
    /\ pc[t] = "defer" /\ Steps(t)
    /\ RowsFor(TrimmedId(call[t].order_id)) # {}

\* no platform or datastore call raised in this step of handler t
NothingRaised(t) ==
    /\ exc'[t] = E_none
    /\ call[t].h = "redeem" => resp'[t] \notin {M_none, M_broke}

\* C2 as stated: a redemption attempt for an order id that already has a
\* ledger row is answered "already redeemed" and neither grants the role nor
\* inserts a row (read as: unless the defer or the lookup itself raises).
C2_AsStated ==
    [][\A t \in Tasks :
          (LookupWithRow(t) /\ NothingRaised(t)) =>
              /\ pc'[t] = "done"
              /\ resp'[t] = M_already
              /\ role_redeem' = role_redeem
              /\ roles' = roles]_vars

\* C2 amended: a redemption attempt for an order id that already has a
\* ledger row ends at its ledger check without a role grant and without an
\* insert, whatever raises.  The modal answers "already redeemed"; /redeem
\* answers "already redeemed" when the storefront is configured and "not
\* configured" when it is not.
C2_NoGrantNoInsert ==
    [][\A t \in Tasks :
          LookupWithRow(t) =>
              /\ pc'[t] = "done"
              /\ role_redeem' = role_redeem
              /\ roles' = roles
              /\ NothingRaised(t) =>
                    resp'[t] =
                        IF /\ call[t].h = "redeem"
                           /\ (~env.SELLAUTH_API_KEY \/ ~env.SELLAUTH_SHOP_ID)
                        THEN M_not_configured
                        ELSE M_already]_vars

\* an attempt for an order the ledger already held was answered
\* "already redeemed", and the ledger still holds one row for it
C2_Witness ==
    \E t \in Tasks :
        /\ pc[t] = "done" /\ call[t].h = "redeem"
        /\ resp[t] = M_already
        /\ CountFor(<<"a">>) = 1

\* C3: the ledger holds at most one record per invoice_id.
C3_AtMostOnePerInvoice ==
    \A o \in OrderIds : CountFor(TrimmedId(o)) <= 1

\* paid as the redemption flows must see it: a paid or completed status,
\* not refunded, not cancelled
PaidInvoice(i) ==
    /\ i \in Invoices
    /\ StatusIn(i, PaidSpellings \cup CompletedSpellings \cup CompleteSpellings)
    /\ i.refunded = JBool(FALSE)
    /\ i.cancelled = JBool(FALSE)

\* C4: add_roles is called only by an attempt whose invoice was fetched and
\* is paid, not refunded and not cancelled; nothing else changes a
\* member's roles.
C4_GrantOnlyIfPaid ==
    /\ [](\A t \in Tasks :
            (IsRedeemTask(t) /\ pc[t] = "add_roles") =>
                PaidInvoice(call[t].invoice))
    /\ [][roles' # roles =>
            \E t \in Tasks :
                /\ IsRedeemTask(t) /\ pc[t] = "add_roles" /\ Steps(t)
                /\ roles' = [roles EXCEPT ![call[t].user] =
                                              @ \cup {ACCESS_ROLE_ID}]]_vars

\* a member holds the access role after a grant
C4_Witness ==
    \E m \in Members : ACCESS_ROLE_ID \in roles[m]

\* the row an attempt has to leave in the ledger
ExpectedRow(c) ==
    [role_id          |-> JStr(ACCESS_ROLE_ID),
     redeemed         |-> JBool(TRUE),
     redeemed_by      |-> JInt(IF c.h = "modal" THEN c.user ELSE c.issuer),
     invoice_id       |-> JStr(TrimmedId(c.order_id)),
     discord_username |-> JStr(NameOf(c.user))]

\* the attempt got past its insert
PastInsert(t) ==
    \/ call[t].h = "modal" /\ resp'[t] = M_modal_success
    \/ call[t].h = "redeem"
       /\ (pc'[t] = "log_send" \/ resp'[t] = M_redeem_success)

\* C5: an attempt whose lookup found no row, whose fetch returned a paid
\* invoice and whose grant succeeded inserts exactly one row: redeemed,
\* the trimmed order id, and the redeeming member (modal) or the invoking
\* staff id and the target's name (/redeem).  No other step of an attempt
\* touches the ledger.
C5_InsertsOneRow ==
    [][\A t \in Tasks :
          (IsRedeemTask(t) /\ Steps(t)) =>
              IF pc[t] \in {"fetch", "add_roles"} /\ PastInsert(t)
              THEN role_redeem' = role_redeem (+) SetToBag({ExpectedRow(call[t])})
              ELSE role_redeem' = role_redeem]_vars

\* /redeem confirmed an order and the ledger holds the staff member's row
\* for it
C5_Witness ==
    /\ \E t \in Tasks : resp[t] = M_redeem_success
    /\ \E r \in RowsFor(<<"a">>) :
          r.redeemed_by = JInt(21) /\ r.discord_username = JStr("ann")

\* the grant was refused for lack of permission
GrantForbidden(t) ==
    /\ pc[t] = "add_roles" /\ Steps(t)
    /\ \/ call[t].h = "modal" /\ exc'[t] = "Forbidden"
       \/ call[t].h = "redeem" /\ resp'[t] = M_cannot_assign

\* C6: when the grant fails with a permission error the attempt ends with
\* the ledger unchanged, and a finished attempt never runs again.
C6_ForbiddenNoInsert ==
    [][\A t \in Tasks :
          /\ (IsRedeemTask(t) /\ GrantForbidden(t)) =>
                 pc'[t] = "done" /\ role_redeem' = role_redeem
          /\ pc[t] = "done" => pc'[t] = "done"]_vars

\* the modal ended on a refused grant and the ledger is empty
C6_Witness ==
    /\ \E t \in Tasks : pc[t] = "done" /\ exc[t] = "Forbidden"
    /\ role_redeem = EmptyBag

-----------------------------------------------------------------------------
(* Support tickets: the claims.                                            *)

\* the member ids as they are written into a channel topic
DigitsOf(m) == CASE m = 11 -> <<"1", "1">> [] m = 12 -> <<"1", "2">>
                 [] m = 21 -> <<"2", "1">>

\* the topic of channel c records member m as the opener
TopicNamesOpener(c, m) ==
    \E k \in DOMAIN c.topic : c.topic[k] = <<"ticket_opener", DigitsOf(m)>>

HoldsStaffRole(m) == roles[m] \cap STAFF_ROLE_IDS # {}

\* handler t is a close-ticket press made in this step
ClosePressed(t) == pc[t] = "idle" /\ pc'[t] # "idle" /\ call'[t].h = "close"

\* C7: a close-ticket press by a member who neither holds a staff role nor
\* is the opener recorded in the channel topic is answered with the
\* permission message and ends there: no ledger update, no audit entry, no
\* channel deleted.
C7_CloseNeedsStaffOrOpener ==
    [][\A t \in Tasks :
          /\ ClosePressed(t) =>
                LET u == call'[t].user
                    c == Channel(call'[t].channel)
                IN  (~HoldsStaffRole(u) /\ ~TopicNamesOpener(c, u)) =>
                        /\ resp'[t] = M_no_permission
                        /\ pc'[t] = "done"
                        /\ tickets' = tickets
                        /\ logs' = logs
                        /\ channels' = channels
          /\ pc[t] = "done" => (pc'[t] = "done" /\ resp'[t] = resp[t])]_vars

\* member 12 was refused on the ticket channel of member 11
C7_Witness ==
    \E t \in Tasks :
        /\ pc[t] = "done" /\ call[t].h = "close"
        /\ resp[t] = M_no_permission
        /\ call[t].user = 12
        /\ TopicNamesOpener(Channel(call[t].channel), 11)
        /\ Channel(call[t].channel).live

OpenRowsOf(m) ==
    {i \in DOMAIN tickets :
        tickets[i].opener_id = m /\ tickets[i].status = "open"}

\* create_or_get_ticket_channel runs its lookup in this step of handler t,
\* and neither the defer, the category lookup nor the select raised
OpenLooksUp(t) ==
    /\ pc[t] = "defer" /\ call[t].h = "open" /\ Steps(t)
    /\ exc'[t] = E_none
    /\ pc'[t] = "create" => call'[t].existing # JNull

\* C8 as stated: whenever the ledger holds a status=open row for the
\* opener, create_or_get_ticket_channel returns the existing channel and
\* creates neither a ledger row nor a channel.
C8_AsStated ==
    [][\A t \in Tasks :
          (OpenLooksUp(t) /\ OpenRowsOf(call[t].member) # {}) =>
              /\ pc'[t] = "done" /\ resp'[t] = M_ticket_ready
              /\ \E i \in OpenRowsOf(call[t].member) :
                    call'[t].channel = tickets[i].channel_id
              /\ tickets' = tickets
              /\ channels' = channels]_vars

\* the newest open row of member m points at a live channel
NewestOpenIsLive(m) ==
    /\ OpenRowsOf(m) # {}
    /\ LET i == CHOOSE i \in OpenRowsOf(m) : \A j \in OpenRowsOf(m) : j <= i
       IN  /\ tickets[i].channel_id # JNull
           /\ \E k \in DOMAIN channels :
                 /\ tickets[i].channel_id = JInt(500 + k)
                 /\ channels[k].live

\* C8 amended: whenever the opener's newest status=open row holds the id of
\* a channel that still exists, create_or_get_ticket_channel returns that
\* channel and creates neither a ledger row nor a channel.  (An open row
\* without a stored channel id, or whose channel is gone, does not stop a
\* new row and a new channel from being created.)
C8_ReturnsLiveChannel ==
    [][\A t \in Tasks :
          (OpenLooksUp(t) /\ NewestOpenIsLive(call[t].member)) =>
              /\ pc'[t] = "done" /\ resp'[t] = M_ticket_ready
              /\ \E i \in OpenRowsOf(call[t].member) :
                    /\ \A j \in OpenRowsOf(call[t].member) : j <= i
                    /\ call'[t].channel = tickets[i].channel_id
              /\ tickets' = tickets
              /\ channels' = channels]_vars

\* a second press by the same opener got the channel of the one open row
C8_Witness ==
    /\ Len(tickets) = 1 /\ Len(channels) = 1
    /\ tickets[1].status = "open"
    /\ \A t \in Tasks :
          /\ pc[t] = "done" /\ call[t].h = "open"
          /\ resp[t] = M_ticket_ready
          /\ call[t].channel = tickets[1].channel_id

\* C9: a ticket record is created with status=open; its only status change
\* is open -> closed, which sets closed_at; a closed record stays closed and
\* no record is deleted or changes its opener.
C9_TicketLifecycle ==
    [][/\ Len(tickets') >= Len(tickets)
       /\ \A i \in DOMAIN tickets' :
             IF i \in DOMAIN tickets
             THEN /\ tickets'[i].opener_id = tickets[i].opener_id
                  /\ \/ tickets'[i].status = tickets[i].status
                     \/ /\ tickets[i].status = "open"
                        /\ tickets'[i].status = "closed"
                  /\ tickets'[i].status = "closed" =>
                        tickets'[i].closed_at # JNull
                  /\ tickets'[i].status = "open" =>
                        tickets'[i].closed_at = JNull
             ELSE /\ tickets'[i].status = "open"
                  /\ tickets'[i].closed_at = JNull]_vars

\* a ticket was opened and then closed: its row is closed, with closed_at,
\* and its channel is gone
C9_Witness ==
    \E i \in DOMAIN tickets :
        /\ tickets[i].status = "closed"
        /\ tickets[i].closed_at # JNull
        /\ \E k \in DOMAIN channels :
              tickets[i].channel_id = JInt(500 + k) /\ ~channels[k].live

-----------------------------------------------------------------------------
(* The legacy dashboard: the claims.                                       *)

RoleRows(role) == {r \in BagToSet(role_redeem) : r.role_id = JStr(role)}

\* the callback of handler t runs its checks in this step
ButtonChecks(t) == call[t].h = "button" /\ pc[t] = "defer" /\ Steps(t)

\* C10 as stated: once the ledger row of a role_id is marked redeemed, a
\* later press of that button, by any user, is stopped at the ledger check:
\* no file is delivered and the ledger is not updated.
C10_AsStated ==
    [][\A t \in Tasks :
          (/\ ButtonChecks(t)
           /\ \E r \in RoleRows(call[t].button.required_role) :
                 r.redeemed = JBool(TRUE)) =>
              /\ pc'[t] = "done"
              /\ dms' = dms
              /\ role_redeem' = role_redeem]_vars

\* C10 amended: once the ledger row of a role_id is marked redeemed by a
\* user, a later press of that button by that same user is stopped at the
\* ledger check with "You already redeemed this product.": no file is
\* delivered and the ledger is not updated.  (A press by another holder of
\* the role is not stopped.)
C10_SameUserRefused ==
    [][\A t \in Tasks :
          (/\ ButtonChecks(t)
           /\ RoleRows(call[t].button.required_role) # {}
           /\ \A r \in RoleRows(call[t].button.required_role) :
                 r.redeemed = JBool(TRUE) /\ r.redeemed_by = JInt(call[t].user)) =>
              /\ pc'[t] = "done"
              /\ dms' = dms
              /\ role_redeem' = role_redeem
              /\ (exc'[t] = E_none
                    /\ call[t].button.required_role \in roles[call[t].user]) =>
                    resp'[t] = M_already_you]_vars

\* member 11 got the Alpha file once and was refused the second time
C10_Witness ==
    /\ \E t \in Tasks : pc[t] = "done" /\ resp[t] = M_already_you
    /\ dms = SetToBag({[to |-> 11, file |-> "files/alpha.zip"]})
    /\ \A r \in RoleRows("7001") : r.redeemed_by = JInt(11)

\* how many times member u was sent the product file of button b
Deliveries(u, b) == CopiesIn([to |-> u, file |-> b.product_path], dms)

\* C11: over any sequence of button presses, no user is delivered the
\* product file of one role_id more than once (read as: as long as no
\* platform or datastore call of a callback raised).
C11_NoDoubleDelivery ==
    (\A t \in Tasks : exc[t] = E_none) =>
        \A u \in Pressers, b \in Buttons : Deliveries(u, b) <= 1

\* the callback of handler t resumes from the direct message in this step
ButtonDelivers(t) == call[t].h = "button" /\ pc[t] = "dm" /\ Steps(t)

\* C12: the callback checks role membership, then the ledger, then the
\* file, in that order; a failed check ends it with that check's message and
\* nothing delivered or written; only past all three is the file sent, and
\* only after the delivery is the row marked redeemed; a refused direct
\* message ends the callback with the ledger unchanged; a finished callback
\* takes no further step.
C12_ChecksThenDeliversThenMarks ==
    [][/\ \A t \in Tasks :
             /\ (ButtonChecks(t) /\ exc'[t] = E_none) =>
                   LET role == call[t].button.required_role
                       u    == call[t].user
                       rows == RoleRows(role)
                       mine == {r \in rows : r.redeemed = JBool(TRUE)
                                             /\ r.redeemed_by = JInt(u)}
                   IN  /\ dms' = dms /\ role_redeem' = role_redeem
                       /\ IF role \notin roles[u]
                          THEN pc'[t] = "done" /\ resp'[t] = M_no_role
                          ELSE IF rows = {}
                          THEN pc'[t] = "done" /\ resp'[t] = M_no_entry
                          ELSE IF mine = rows
                          THEN pc'[t] = "done" /\ resp'[t] = M_already_you
                          ELSE IF mine = {}
                          THEN \/ pc'[t] = "done" /\ resp'[t] = M_file_missing
                               \/ pc'[t] = "dm" /\ resp'[t] = M_none
                          ELSE TRUE
             /\ ButtonDelivers(t) =>
                   LET b == call[t].button
                       u == call[t].user
                       sent == [to |-> u, file |-> b.product_path]
                   IN  /\ pc'[t] = "done"
                       /\ role_redeem' # role_redeem => dms' = dms (+) SetToBag({sent})
                       /\ resp'[t] = M_redeemed =>
                             /\ dms' = dms (+) SetToBag({sent})
                             /\ \A r \in BagToSet(role_redeem') :
                                   r.role_id = JStr(b.required_role) =>
                                      r.redeemed = JBool(TRUE) /\ r.redeemed_by = JInt(u)
                       /\ resp'[t] = M_enable_dms =>
                             dms' = dms /\ role_redeem' = role_redeem
             /\ (call[t].h = "button" /\ pc[t] = "done") =>
                   pc'[t] = "done" /\ resp'[t] = resp[t]
       /\ (dms' # dms \/ role_redeem' # role_redeem) =>
             \E s \in Tasks : ButtonDelivers(s)]_vars

\* one press was refused the direct message and left the ledger alone,
\* another passed the three checks, got the file and marked the row
C12_Witness ==
    /\ \E t \in Tasks : pc[t] = "done" /\ resp[t] = M_enable_dms
    /\ \E t \in Tasks : pc[t] = "done" /\ resp[t] = M_redeemed
    /\ BagCardinality(dms) = 1
    /\ \E r \in BagToSet(role_redeem) : r.redeemed = JBool(TRUE)

-----------------------------------------------------------------------------
(* fetch_invoice: the claims.                                              *)

Unconfigured == ~(env.SELLAUTH_API_KEY /\ env.SELLAUTH_SHOP_ID)

\* the request is one of the three failure cases
FetchFails ==
    \/ Unconfigured
    \/ arg = HttpTimeout
    \/ "status" \in DOMAIN arg /\ arg.status # 200

\* C13: in each of the three failure cases (non-200 answer, the 8 seconds
\* pass, credentials missing) fetch_invoice returns null and does not raise.
C13_FailureReturnsNull ==
    (ret # NoRet /\ FetchFails) => ret = [return |-> JNull]

-----------------------------------------------------------------------------
(* Error handling of the redemption handlers: the claims.                  *)

\* C14: every handler catches whatever a step of its body raises: no
\* exception escapes a handler (stated for the steps after the deferral,
\* when the handler can still answer the user).
C14_NoExceptionEscapes ==
    [][\A t \in Tasks :
          (IsRedeemTask(t) /\ Steps(t) /\ pc[t] # "defer") =>
              exc'[t] = E_none]_vars

\* C15: when the platform rejects the role grant of a redemption for lack
\* of permission, the user is answered with the "cannot assign roles"
\* message and no exception leaves the handler.
C15_ForbiddenIsExplained ==
    [][\A t \in Tasks :
          (IsRedeemTask(t) /\ GrantForbidden(t)) =>
              resp'[t] = M_cannot_assign /\ exc'[t] = E_none]_vars

\* C16: when the storefront API key or shop id is absent, a redemption
\* attempt (/redeem or the modal) for an order that is not in the ledger
\* ends with the "not configured" message, with no ledger write and no role
\* grant (read as: unless the defer or the ledger lookup itself raises).
C16_UnconfiguredIsExplained ==
    [][\A t \in Tasks :
          (/\ IsRedeemTask(t) /\ Unconfigured
           /\ Steps(t) /\ pc'[t] = "done" /\ NothingRaised(t)
           /\ RowsFor(TrimmedId(call[t].order_id)) = {}) =>
              /\ resp'[t] = M_not_configured
              /\ role_redeem' = role_redeem
              /\ roles' = roles]_vars

-----------------------------------------------------------------------------
(* RedeemView: the claims.                                                 *)

\* entry e holds all four keys
IsComplete(e) ==
    /\ e.ButtonName # Absent /\ e.ButtonColor # Absent
    /\ e.ButtonProductPath # Absent /\ e.RedeemRole # Absent

\* entry e is valid: complete, and its role is a numeral
IsValidEntry(e) == IsComplete(e) /\ e.RedeemRole = JStr(<<"7">>)

\* C17: for a config whose entries are valid or miss a key, the entries that
\* miss a key are skipped and every valid entry is rendered as a button, in
\* config order.
C17_SkipsMalformedEntries ==
    (/\ ret # NoRet
     /\ "buttons" \in DOMAIN arg
     /\ \A i \in DOMAIN arg.buttons :
           IsComplete(arg.buttons[i]) => IsValidEntry(arg.buttons[i])) =>
        LET cfg   == arg.buttons
            valid == {i \in DOMAIN cfg : IsValidEntry(cfg[i])}
            rank(i) == Cardinality({j \in valid : j <= i})
        IN  /\ "items" \in DOMAIN ret
            /\ Len(ret.items) = Cardinality(valid)
            /\ \A i \in valid :
                  /\ ret.items[rank(i)].label = cfg[i].ButtonName.str
                  /\ ret.items[rank(i)].product_path = cfg[i].ButtonProductPath.str
                  /\ ret.items[rank(i)].required_role = 7
                  /\ ret.items[rank(i)].style = "danger"

\* a valid entry, an entry without its role, and a second valid entry were
\* rendered as the two buttons Beta, Alpha
C17_Witness ==
    /\ ret # NoRet /\ "buttons" \in DOMAIN arg /\ "items" \in DOMAIN ret
    /\ Len(arg.buttons) = 3
    /\ IsValidEntry(arg.buttons[1]) /\ arg.buttons[1].ButtonName = JStr("Beta")
    /\ arg.buttons[2].RedeemRole = Absent
    /\ IsValidEntry(arg.buttons[3]) /\ arg.buttons[3].ButtonName = JStr("Alpha")
    /\ Len(ret.items) = 2
    /\ ret.items[1].label = "Beta" /\ ret.items[2].label = "Alpha"

-----------------------------------------------------------------------------
(* Concurrency of redemption attempts: the claims.                         *)

\* how many rows a ledger holds for an order id
RowsIn(ledger, id) ==
    LET rows == {r \in BagToSet(ledger) : r.invoice_id = JStr(id)}
    IN  BagCardinality([r \in rows |-> ledger[r]])

\* C18: the check and the insert of a redemption are not one atomic step:
\* an attempt passes the check only while the ledger has no row for its
\* order id, but once past it the attempt is not stopped by a row that
\* another attempt has inserted meanwhile; it is never answered "already
\* redeemed" and its insert adds a further row for the same order id.
C18_CheckThenInsertNotAtomic ==
    [][\A t \in Tasks :
          (IsRedeemTask(t) /\ Steps(t)) =>
              LET id == TrimmedId(call[t].order_id)
              IN  /\ (pc[t] = "defer" /\ pc'[t] = "fetch") => RowsFor(id) = {}
                  /\ (pc[t] \in {"fetch", "add_roles"} /\ RowsFor(id) # {}) =>
                        /\ resp'[t] # M_already
                        /\ PastInsert(t) =>
                              RowsIn(role_redeem', id) = CountFor(id) + 1]_vars

\* two attempts for order "b", for two members, both confirmed: both
\* members hold the access role and the ledger has two rows for "b"
C18_Witness ==
    /\ \E t1, t2 \in Tasks :
          /\ t1 # t2
          /\ pc[t1] = "done" /\ pc[t2] = "done"
          /\ resp[t1] \in {M_modal_success, M_redeem_success}
          /\ resp[t2] \in {M_modal_success, M_redeem_success}
    /\ CountFor(<<"b">>) = 2
    /\ \A m \in Members : ACCESS_ROLE_ID \in roles[m]
    /\ \E r \in RowsFor(<<"b">>) : r.discord_username = JStr("ann")
    /\ \E r \in RowsFor(<<"b">>) : r.discord_username = JStr("bob")

-----------------------------------------------------------------------------
(* Closing a ticket, and the audit log: the claims.                        *)

\* handler t is a close that resumes from pc at in this step
CloseStep(t, at) == call[t].h = "close" /\ pc[t] = at /\ Steps(t)

\* the ticket row that the close of handler t is about is still open
RowStillOpen(t) ==
    /\ call[t].ticket_id # JNull
    /\ call[t].ticket_id.int \in DOMAIN tickets
    /\ tickets[call[t].ticket_id.int].status = "open"

\* C19 as stated: close marks the row closed, then logs, then deletes; a
\* ticket channel is never deleted by close while its ledger row still has
\* status=open.
C19_AsStated ==
    [][\A t \in Tasks :
          (CloseStep(t, "delete") /\ channels' # channels) =>
              ~RowStillOpen(t)]_vars

\* the audit entry of the close of handler t
ClosedEntry(t) == [event |-> "Ticket Closed", ticket_id |-> call[t].ticket_id]

\* C19 amended: an authorized close first tries to mark the ledger row
\* closed, then emits the audit entry (when the log channel is found), then
\* deletes the channel, in that order: the row is written only in the first
\* step, the entry only in the second, the channel is deleted only in the
\* last.  (The update is best-effort: when it fails the channel is deleted
\* although its row still has status=open.)
C19_MarkThenLogThenDelete ==
    [][\A t \in Tasks :
          /\ CloseStep(t, "closing") =>
                /\ pc'[t] \in {"log_send", "delete"}
                /\ logs' = logs /\ channels' = channels
                /\ \/ tickets' = tickets
                   \/ /\ RowStillOpen(t) \/ tickets[call[t].ticket_id.int].status = "closed"
                      /\ tickets' = [tickets EXCEPT
                            ![call[t].ticket_id.int].status = "closed",
                            ![call[t].ticket_id.int].closed_at = JStr("now")]
          /\ CloseStep(t, "log_send") =>
                /\ tickets' = tickets /\ channels' = channels
                /\ \/ pc'[t] = "delete" /\ logs' = Append(logs, ClosedEntry(t))
                   \/ pc'[t] = "done" /\ logs' = logs /\ exc'[t] # E_none
          /\ CloseStep(t, "delete") =>
                /\ pc'[t] = "done"
                /\ tickets' = tickets /\ logs' = logs
                /\ \/ channels' = channels
                   \/ channels' = [channels EXCEPT
                                      ![call[t].channel - 500].live = FALSE]]_vars

\* a close went through its three steps: the row is closed, the entry is
\* in the log, the channel is gone
C19_Witness ==
    \E t \in Tasks, i \in DOMAIN tickets, k \in DOMAIN channels :
        /\ pc[t] = "done" /\ call[t].h = "close" /\ resp[t] = M_closing
        /\ exc[t] = E_none
        /\ tickets[i].status = "closed"
        /\ tickets[i].channel_id = JInt(500 + k) /\ ~channels[k].live
        /\ \E n \in DOMAIN logs :
              logs[n] = [event |-> "Ticket Closed", ticket_id |-> JInt(i)]

\* C20: a failure of the audit-log send is swallowed: the close goes on to
\* delete the channel, the open goes on to post the initial message, and
\* /redeem still confirms to the user.
C20_LogFailureSwallowed ==
    [][\A t \in Tasks :
          (pc[t] = "log_send" /\ Steps(t)) =>
              /\ exc'[t] = E_none
              /\ call[t].h = "close" => pc'[t] = "delete"
              /\ call[t].h = "open" => pc'[t] = "post"
              /\ call[t].h = "redeem" => resp'[t] = M_redeem_success]_vars

-----------------------------------------------------------------------------
(* Creating a ticket: the claims.                                          *)

\* ticket ids as they are written into a topic, and as a channel name
TicketDigits(n) ==
    CASE n = 1 -> <<"1">> [] n = 2 -> <<"2">> [] n = 3 -> <<"3">>
      [] n = 4 -> <<"4">> [] n = 1700 -> <<"1", "7", "0", "0">>

TicketName(n) ==
    CASE n = 1 -> <<"0", "0", "0", "1">> [] n = 2 -> <<"0", "0", "0", "2">>
      [] n = 3 -> <<"0", "0", "0", "3">> [] n = 4 -> <<"0", "0", "0", "4">>
      [] n = 1700 -> <<"1", "7", "0", "0">>

\* the open of handler t finds no open ticket to return, in this step
OpenFindsNone(t) ==
    call[t].h = "open" /\ pc[t] = "defer" /\ pc'[t] = "create"

\* the channel of handler t is created in this step
OpenCreates(t) ==
    /\ call[t].h = "open" /\ pc[t] = "create" /\ Steps(t)
    /\ Len(channels') = Len(channels) + 1

\* the row of a ticket that was opened by m and has channel ch
OpenRow(m, ch) ==
    [opener_id |-> m, status |-> "open", channel_id |-> ch, closed_at |-> JNull]

\* C21 as stated: after a successful creation the row with the topic's
\* ticket_id has status=open, the opener's id and the new channel's id.
C21_AsStated ==
    [][\A t \in Tasks :
          OpenCreates(t) =>
              LET id == call[t].ticket_id
              IN  /\ id \in DOMAIN tickets'
                  /\ tickets'[id] =
                        OpenRow(call[t].member, JInt(500 + Len(channels')))]_vars

\* C21 amended: when no open ticket is found the row is inserted
\* (status=open, the opener's id) before the channel is created; the
\* channel is named from the ticket id, its topic records opener and ticket
\* id, and the channel id is then written to the row with that id, leaving
\* it open with the opener's id.  (When the insert fails the ticket id is
\* the current time and there is no such row; when the write-back fails the
\* row keeps an empty channel id.)
C21_RowThenChannelThenBackfill ==
    [][\A t \in Tasks :
          /\ OpenFindsNone(t) =>
                /\ channels' = channels
                /\ \/ /\ tickets' = Append(tickets, OpenRow(call[t].member, JNull))
                      /\ call'[t].ticket_id = Len(tickets')
                   \/ /\ tickets' = tickets
                      /\ call'[t].ticket_id = 1700
          /\ OpenCreates(t) =>
                LET id  == call[t].ticket_id
                    new == channels'[Len(channels')]
                IN  /\ new.name = TicketName(id)
                    /\ new.topic = << <<"ticket_opener", DigitsOf(call[t].member)>>,
                                      <<"ticket_id", TicketDigits(id)>> >>
                    /\ new.live
                    /\ \/ tickets' = tickets
                       \/ /\ id \in DOMAIN tickets
                          /\ tickets[id] = OpenRow(call[t].member, JNull)
                          /\ tickets' = [tickets EXCEPT ![id] =
                                OpenRow(call[t].member, JInt(500 + Len(channels')))]]_vars

\* a ticket was created: row 1 is open, belongs to member 12 and holds the
\* id of the live channel 0001 whose topic names member 12 and ticket 1
C21_Witness ==
    /\ Len(tickets) >= 1 /\ Len(channels) >= 1
    /\ tickets[1] = OpenRow(12, JInt(501))
    /\ channels[1].live /\ channels[1].name = TicketName(1)
    /\ channels[1].topic = << <<"ticket_opener", DigitsOf(12)>>,
                              <<"ticket_id", TicketDigits(1)>> >>

-----------------------------------------------------------------------------
(* The role_redeem table under all of its writers: the claims.             *)

\* row new is row old with at most redeemed and redeemed_by changed
FlippedFrom(new, old) ==
    /\ new.role_id = old.role_id
    /\ new.invoice_id = old.invoice_id
    /\ new.discord_username = old.discord_username

\* the attempt of handler t ends rejected in this step
Rejected(t) ==
    /\ Steps(t) /\ pc'[t] = "done"
    /\ resp'[t] \notin {M_modal_success, M_redeem_success, M_redeemed}

\* C22: redemption records are never deleted; /redeem and the redeem modal
\* only insert new rows and leave every existing row as it is; the dashboard
\* button never inserts and changes nothing but redeemed and redeemed_by of
\* rows of its role; a rejected attempt leaves the ledger unchanged.
C22_LedgerFrame ==
    [][/\ BagCardinality(role_redeem') >= BagCardinality(role_redeem)
       /\ \A t \in Tasks :
             /\ (IsRedeemTask(t) /\ Steps(t)) =>
                   /\ \A r \in BagToSet(role_redeem) :
                         CopiesIn(r, role_redeem') >= CopiesIn(r, role_redeem)
                   /\ BagCardinality(role_redeem')
                         <= BagCardinality(role_redeem) + 1
             /\ (call[t].h = "button" /\ Steps(t)) =>
                   /\ BagCardinality(role_redeem') = BagCardinality(role_redeem)
                   /\ \A r \in BagToSet(role_redeem) :
                         r.role_id # JStr(call[t].button.required_role) =>
                            CopiesIn(r, role_redeem') = CopiesIn(r, role_redeem)
                   /\ \A new \in BagToSet(role_redeem') :
                         \E old \in BagToSet(role_redeem) : FlippedFrom(new, old)
             /\ Rejected(t) => role_redeem' = role_redeem
       /\ role_redeem' # role_redeem =>
             \E t \in Tasks : Steps(t) /\ pc[t] \in {"fetch", "add_roles", "dm"}]_vars

\* the modal or /redeem has inserted a row for order "b" next to the two
\* rows that were there, and the button has flipped the code row
C22_Witness ==
    /\ BagCardinality(role_redeem) = 3
    /\ CopiesIn(PriorRow, role_redeem) = 1
    /\ RowsFor(<<"b">>) # {}
    /\ CopiesIn([CodeRow("7001") EXCEPT !.redeemed = JBool(TRUE),
                                        !.redeemed_by = JInt(11)],
                role_redeem) = 1

-----------------------------------------------------------------------------
(* Grant and ledger write are two steps: the claims.                       *)

\* the insert of handler t failed in this step, after its grant
InsertFailedAfterGrant(t) ==
    /\ pc[t] = "add_roles" /\ Steps(t)
    /\ \/ call[t].h = "modal" /\ exc'[t] = "APIError"
       \/ call[t].h = "redeem" /\ resp'[t] = M_broke /\ roles' # roles

\* C23: there is no compensating rollback: when the insert fails after the
\* grant succeeded the member keeps the role and the ledger gets no row; no
\* step ever takes a role away; and an attempt whose order id has no row is
\* never rejected as already redeemed.
C23_NoRollback ==
    [][/\ \A t \in Tasks :
             /\ InsertFailedAfterGrant(t) =>
                   /\ ACCESS_ROLE_ID \in roles'[call[t].user]
                   /\ role_redeem' = role_redeem
                   /\ pc'[t] = "done"
             /\ (IsRedeemTask(t) /\ pc[t] = "defer" /\ Steps(t)
                   /\ RowsFor(TrimmedId(call[t].order_id)) = {}) =>
                   resp'[t] # M_already
       /\ \A m \in DOMAIN roles : roles[m] \subseteq roles'[m]]_vars

\* an attempt failed at its insert after the grant: member 11 holds the
\* role, the ledger is empty, and a later attempt for order "b" has passed
\* the already-redeemed check
C23_Witness ==
    /\ role_redeem = EmptyBag
    /\ ACCESS_ROLE_ID \in roles[11]
    /\ \E t1, t2 \in Tasks :
          /\ pc[t1] = "done"
          /\ exc[t1] = "APIError" \/ resp[t1] = M_broke
          /\ pc[t2] = "fetch" /\ call[t2].order_id = <<"b">>
          /\ call[t2].user = 11

\* the fetch of handler t returned in this step
AfterFetch(t) == IsRedeemTask(t) /\ pc[t] = "fetch" /\ Steps(t)

\* C24: the grant call is issued only when the target member does not hold
\* the access role; a valid redemption for a member who already holds it
\* issues no grant call, leaves the roles alone and still inserts the row.
C24_GrantOnlyIfNotHeld ==
    [][\A t \in Tasks :
          AfterFetch(t) =>
              /\ pc'[t] = "add_roles" =>
                    ACCESS_ROLE_ID \notin roles[call[t].user]
              /\ (ACCESS_ROLE_ID \in roles[call[t].user] /\ PastInsert(t)) =>
                    /\ roles' = roles
                    /\ role_redeem' =
                          role_redeem (+) SetToBag({ExpectedRow(call[t])})]_vars

\* member 11 redeemed order "a" and then order "b": both are confirmed,
\* both rows are in the ledger, and the role is held once
C24_Witness ==
    /\ \A t \in {1, 2} :
          pc[t] = "done" /\ resp[t] \in {M_modal_success, M_redeem_success}
    /\ \E r \in RowsFor(<<"a">>) : r.discord_username = JStr("ann")
    /\ \E r \in RowsFor(<<"b">>) : r.redeemed_by = JInt(11)
    /\ roles[11] = {ACCESS_ROLE_ID} /\ roles[12] = {}

-----------------------------------------------------------------------------
(* One ticket per opener, and rows only after a grant: the claims.         *)

\* the live ticket channels whose topic names member m as the opener
LiveChannelsOf(m) ==
    {k \in DOMAIN channels : channels[k].live /\ TopicNamesOpener(channels[k], m)}

\* C25: in every reachable state the tickets ledger holds at most one
\* status=open row per opener and there is at most one live ticket channel
\* per opener.
C25_OneOpenTicketPerOpener ==
    \A m \in Openers :
        /\ Cardinality(OpenRowsOf(m)) <= 1
        /\ Cardinality(LiveChannelsOf(m)) <= 1

\* C26: every row inserted by an order redemption is written after a
\* confirmed grant: when the row is inserted the member receiving access
\* holds the access role.
C26_RowOnlyAfterGrant ==
    [][\A t \in Tasks :
          (IsRedeemTask(t) /\ Steps(t) /\ role_redeem' # role_redeem) =>
              ACCESS_ROLE_ID \in roles'[call[t].user]]_vars

====
